---- MODULE Spec2Model ----
(***************************************************************************)
(* Parafile: the folder watcher and the per-file processing pipeline of    *)
(* src/src/organizer.py (DocumentHandler), with the filesystem under the   *)
(* watched root, the text-extraction and AI gateways as environment.       *)
(*                                                                         *)
(* A path is a record [dir, stem, n, ext]: the file name is                *)
(* stem ++ ext when n = 0 and stem ++ "_" ++ n ++ ext otherwise; dir is    *)
(* Root (the watched folder itself) or the name of a direct child folder.  *)
(* A category string that is an absolute path names a folder outside the   *)
(* watched root (pathlib: base / "/abs" is "/abs").  shutil.move is one    *)
(* atomic rename that either happens or raises and changes nothing.        *)
(*                                                                         *)
(* Spec is the watcher.  GenSpec follows one call of generate_ai_filename  *)
(* step by step, with parse_naming_pattern and extract_single_variable of  *)
(* src/src/ai_processor.py, for every naming pattern of bounded length.    *)
(* RunSpec is the monitor process of organizer.main: the main thread, the   *)
(* observer's dispatch thread and its event queue, Ctrl+C and the          *)
(* termination by the configuration window; RunFairSpec adds the           *)
(* scheduling of the two threads.  EditorSpec is the configuration editor  *)
(* of src/src/gui.py on the catalogues that load_config returns.           *)
(***************************************************************************)
EXTENDS Integers, Sequences, FiniteSets, TLC

VARIABLES
    enable_organization,  \* DocumentHandler.enable_organization
    gateway_categories,   \* the categories the classification gateway names
    files,                \* existing files: path -> content
    dirs,                 \* existing folders: children of the root, or absolute
    dropped,              \* inbox entries the environment has delivered
    pending,              \* events emitted by the observer, not yet dispatched
    event,                \* the event being handled (NoEvent when idle)
    pc,                   \* position of the handler thread
    filepath,             \* process_file: the argument
    attempt,              \* process_file: loop variable of the retry loop
    category,             \* process_file: categorization_result["category"]
    suggested_name,       \* process_file: the generated stem
    destination_folder,   \* process_file: the destination directory
    dest_path,            \* process_file: the candidate destination
    counter,              \* process_file: the conflict counter
    log,                  \* logger calls of the invocation, by level
    delays,               \* time.sleep calls of the invocation
    outcomes,             \* how each attempt of the invocation ended
    calls,                \* gateway calls made while handling the event
    moves,                \* the moves performed by the invocation
    files0,               \* files when the event was dispatched
    dirs0,                \* dirs when the event was dispatched
    gen_pc,               \* generate_ai_filename: position
    gen_pattern,          \* generate_ai_filename: naming_pattern
    gen_original,         \* generate_ai_filename: the source's stem, if given
    variable_names,       \* generate_ai_filename: the parsed placeholders
    gen_i,                \* generate_ai_filename: index of the next placeholder
    extracted,            \* generate_ai_filename: placeholder name -> value
    gateway_log,          \* extract_single_variable calls: name, reply, result
    filename,             \* generate_ai_filename: the return value
    branch,               \* generate_ai_filename: which rendering returned
    main_pc,              \* organizer.main: position of the main thread
    observer,             \* organizer.main: the local variable observer
    observer_thread,      \* the observer's dispatch thread
    stopped_event,        \* the observer's stop flag, set by observer.stop()
    event_queue,          \* events emitted for the watch, not yet dispatched
    dispatching,          \* the event the dispatch thread is handling
    handler_pc,           \* position of the callback the thread is running
    tries,                \* process_file in the thread: the loop variable
    emitted,              \* filesystem changes made in or below the folder
    invocations,          \* the process_file calls begun, in order
    finished,             \* the process_file calls that returned, in order
    errors,               \* the paths named in logger.error records
    watched_folder,       \* organizer.main: the folder load_config returned
    watched_dir,          \* whether that folder exists on disk
    external,             \* the events that came from outside the program
    gui_categories,       \* ConfigGUI.categories: the names, in dict order
    gui_variables,        \* ConfigGUI.variables: the names, in dict order
    form,                 \* ConfigGUI: the open form, if any
    operations,           \* what has been done in the editor so far
    stored,               \* ConfigGUI: where the protected entries' data is from
    monitor_process,      \* ConfigGUI.monitor_process
    subprocesses,         \* the monitor subprocesses that are alive
    started,              \* how many monitor subprocesses were launched
    window,               \* the Tk root window
    config_file,          \* config_manager: the file at CONFIG_FILE
    writable,             \* whether CONFIG_FILE can be opened for writing
    returned,             \* how the last config_manager call ended
    saved_parts           \* the arguments of the last save_config_from_parts

vars == <<enable_organization, gateway_categories, files, dirs, dropped,
          pending, event, pc,
          filepath, attempt, category, suggested_name, destination_folder,
          dest_path, counter, log, delays, outcomes, calls, moves,
          files0, dirs0, gen_pc, gen_pattern, gen_original, variable_names,
          gen_i, extracted, gateway_log, filename, branch,
          main_pc, observer, observer_thread, stopped_event, event_queue,
          dispatching, handler_pc, tries, emitted, invocations, finished,
          errors, watched_folder, watched_dir, external,
          gui_categories, gui_variables, form, operations, stored,
          monitor_process, subprocesses, started, window,
          config_file, writable, returned, saved_parts>>

setupvars == <<enable_organization, gateway_categories>>
fsvars == <<files, dirs>>
envvars == <<dropped, pending>>
localvars == <<filepath, attempt, category, suggested_name,
               destination_folder, dest_path, counter>>
histvars == <<log, delays, outcomes, calls, moves>>
snapvars == <<files0, dirs0>>
genvars == <<gen_pc, gen_pattern, gen_original, variable_names, gen_i,
             extracted, gateway_log, filename, branch>>
runvars == <<main_pc, observer, observer_thread, stopped_event, event_queue,
             dispatching, handler_pc, tries, emitted, invocations, finished,
             errors, watched_folder, watched_dir, external>>
monitorvars == <<monitor_process, subprocesses, started, window>>
guivars == <<gui_categories, gui_variables, form, operations, stored,
             monitorvars>>
cfgvars == <<config_file, writable, returned, saved_parts>>
offvars == <<runvars, guivars, cfgvars>>

(***************************************************************************)
(* Bounds and input sets                                                   *)
(***************************************************************************)
\* how many inbox entries the environment delivers in one behaviour
MaxDrops == 2
\* how many tokens a naming pattern has at most
MaxPatLen == 6

\* the tokens naming patterns are made of
PatternTokens == {"{", "}", "company", "original_name"}

Root == "."
None == "None"
\* None where a string of the pattern engine is expected
NoneSeq == <<None>>
NoPath == [dir |-> None, stem |-> NoneSeq, n |-> 0, ext |-> None]
NoEvent == [is_directory |-> FALSE, path |-> NoPath]

\* what the environment may put into the watched folder: files and one folder
Inbox ==
    { [stem |-> <<"X">>,    ext |-> ".pdf",  is_directory |-> FALSE],
      [stem |-> <<"scan">>, ext |-> ".PDF",  is_directory |-> FALSE],
      [stem |-> <<"memo">>, ext |-> ".docx", is_directory |-> FALSE],
      [stem |-> <<"note">>, ext |-> ".txt",  is_directory |-> FALSE],
      [stem |-> <<"dir">>,  ext |-> ".pdf",  is_directory |-> TRUE] }

\* the name under which a delivered folder appears in dirs
FolderName(item) == IF item.ext = ".pdf" THEN "dir.pdf" ELSE item.stem[1]

RootPath(stem, ext) == [dir |-> Root, stem |-> stem, n |-> 0, ext |-> ext]

\* content of a delivered file: one distinct value per inbox entry
ContentOf(item) == <<"doc", item.stem, item.ext>>

\* files that may be there before the watcher starts
OldInvoice(k) ==
    [dir |-> "Invoices", stem |-> <<"X">>, n |-> k, ext |-> ".pdf"]
OldRoot(k) == [dir |-> Root, stem |-> <<"X">>, n |-> k, ext |-> ".pdf"]

InitialFileSets ==
    { {}, {OldInvoice(0)}, {OldInvoice(1)}, {OldInvoice(0), OldInvoice(1)},
      {OldRoot(1)}, {OldRoot(1), OldRoot(2)} }

OldContent(p) == <<"old", p.dir, p.n>>

\* the old files that go with a repertoire of the classification gateway:
\* they bear the one name that the Invoices pattern renders
InitialFileSetsFor(repertoire) ==
    IF "Invoices" \in repertoire THEN InitialFileSets ELSE {{}}

\* the categories the gateway names in one run of the watcher
CategoryRepertoires == {{"Invoices", "/abs"}, {"General", "Drafts", "Other"}}
\* what the classification gateway may answer with as category
CategoryReplies == UNION CategoryRepertoires
\* the strings among them that pathlib takes as absolute paths
AbsoluteNames == {"/abs"}
\* the ways categorize_document or the two subscripts of its result fail
ClassifyFailures == {"raises", "not_json", "no_category", "no_confidence"}
\* what the extraction gateway answers while a dropped file is processed
PipelineReplies == {[kind |-> "value", value |-> <<"X">>]}

(***************************************************************************)
(* Configuration and constants of the program                              *)
(***************************************************************************)
SUPPORTED_EXTENSIONS == {".pdf", ".docx"}
max_retries == 3
retry_delay == 2

categories ==
    ("General" :> [description |-> "General documents",
                   naming_pattern |-> <<"{", "original_name", "}">>]) @@
    ("Invoices" :> [description |-> "Customer invoices",
                    naming_pattern |-> <<"{", "company", "}">>]) @@
    ("Drafts" :> [description |-> "Unfinished documents",
                  naming_pattern |-> <<>>])

\* str.lower() on the extensions that occur
lower(s) ==
    CASE s = ".PDF" -> ".pdf"
      [] s = ".DOCX" -> ".docx"
      [] s = ".TXT" -> ".txt"
      [] OTHER -> s

\* the file is there to be opened or renamed
is_file(p) == p \in DOMAIN files

\* variant: the existence test always answers no
exists_Never(p) == FALSE

\* dest_path.exists()
exists(p) == p \in DOMAIN files

\* pathlib: joining an absolute name to base_folder gives that name, so the
\* folder lies below base_folder only for relative names
UnderRoot(folder) == folder = Root \/ folder \notin AbsoluteNames

\* dest_path.relative_to(base_folder) in the log call after the move
relative_to_raises(path) == ~UnderRoot(path.dir)

get_naming_pattern(cat, cats) ==
    IF cat \in DOMAIN cats THEN cats[cat].naming_pattern ELSE NoneSeq

\* variant: only None counts as no pattern
Falsy_OnlyNone(pattern) == pattern = NoneSeq

\* Python truthiness of the pattern: None and "" are falsy
Falsy(pattern) == pattern = NoneSeq \/ pattern = <<>>

(***************************************************************************)
(* Naming patterns (src/src/ai_processor.py)                               *)
(*                                                                         *)
(* A string of the pattern engine is a sequence of tokens: an opening      *)
(* brace, a closing brace, or a non-empty piece of text without braces.    *)
(* Concatenation of strings is concatenation of the sequences.             *)
(***************************************************************************)
\* the value of a naming_pattern entry that is not a str (a JSON number)
NotAString == <<"123">>
IsString(p) == p # NotAString

\* the closing brace that ends [^}]+ when the scan starts behind position i:
\* the first "}" to the right of i, 0 when there is none
FirstClose(p, i) ==
    LET closes == {j \in (i + 1)..Len(p) : p[j] = "}"} IN
    IF closes = {} THEN 0
    ELSE CHOOSE j \in closes : \A k \in closes : j <= k

\* a match of \{([^}]+)\} that starts at position i: the position of its
\* closing brace, 0 when there is no match at i
MatchEnd(p, i) ==
    IF p[i] = "{" /\ FirstClose(p, i) > i + 1 THEN FirstClose(p, i) ELSE 0

\* re.findall: the groups of the non-overlapping matches, leftmost first
RECURSIVE findall(_, _)
findall(p, i) ==
    IF i > Len(p) THEN <<>>
    ELSE IF MatchEnd(p, i) > 0
         THEN <<SubSeq(p, i + 1, MatchEnd(p, i) - 1)>>
                  \o findall(p, MatchEnd(p, i) + 1)
         ELSE findall(p, i + 1)

parse_naming_pattern(naming_pattern) == findall(naming_pattern, 1)

\* str.upper() on the tokens that occur
UpperToken(t) ==
    CASE t = "company" -> "COMPANY"
      [] t = "original_name" -> "ORIGINAL_NAME"
      [] OTHER -> t

upper(s) == [i \in 1..Len(s) |-> UpperToken(s[i])]

\* f"<{variable_name.upper()}>"
PlaceholderToken(variable_name) == <<"<">> \o upper(variable_name) \o <<">">>

\* what the extraction gateway does when it is asked for one value: the
\* request raises, the answer is not JSON, is JSON but not an object, is an
\* object without the entry, or is an object with the entry
NoValue == <<>>
ValueReplies ==
    { [kind |-> "raises", value |-> NoValue],
      [kind |-> "not_json", value |-> NoValue],
      [kind |-> "not_object", value |-> NoValue],
      [kind |-> "no_entry", value |-> NoValue],
      [kind |-> "value", value |-> <<"Acme">>],
      [kind |-> "value", value |-> <<"X">>] }

\* variant: the token carries the name as it is written in the pattern
extract_single_variable_NoUpper(variable_name, reply) ==
    IF reply.kind = "value" THEN reply.value
    ELSE <<"<">> \o variable_name \o <<">">>

\* the return value of extract_single_variable, by the gateway's reply
extract_single_variable(variable_name, reply) ==
    IF reply.kind = "value" THEN reply.value
    ELSE PlaceholderToken(variable_name)

\* PatternEngine.render: every match of the placeholder expression is
\* replaced, at its position, by the value of its name; the text between the
\* matches is copied
RECURSIVE substitute(_, _, _)
substitute(p, i, values) ==
    IF i > Len(p) THEN <<>>
    ELSE IF MatchEnd(p, i) > 0
         THEN values[SubSeq(p, i + 1, MatchEnd(p, i) - 1)]
                  \o substitute(p, MatchEnd(p, i) + 1, values)
         ELSE <<p[i]>> \o substitute(p, i + 1, values)

\* rendering fails with a missing placeholder unless this holds
Covers(naming_pattern, values) ==
    \A k \in 1..Len(parse_naming_pattern(naming_pattern)) :
        parse_naming_pattern(naming_pattern)[k] \in DOMAIN values

\* variant: the pattern is returned as it is
render_Unrendered(naming_pattern, values) == naming_pattern

render(naming_pattern, values) == substitute(naming_pattern, 1, values)

\* every placeholder forced to its <NAME> token
TokenValues(names) ==
    [n \in {names[k] : k \in 1..Len(names)} |-> PlaceholderToken(n)]

unnamed_file == <<"unnamed_file">>

\* the second rendering, when the first one failed
SecondRendering(naming_pattern) ==
    render(naming_pattern, TokenValues(parse_naming_pattern(naming_pattern)))

\* variant: no second rendering, the fixed name at once
RenderWithFallback_GivesUp(naming_pattern, values) ==
    IF Covers(naming_pattern, values)
    THEN render(naming_pattern, values)
    ELSE unnamed_file

\* the two renderings of generate_ai_filename
RenderWithFallback(naming_pattern, values) ==
    IF Covers(naming_pattern, values)
    THEN render(naming_pattern, values)
    ELSE SecondRendering(naming_pattern)

\* variant: the gateway is asked for original_name as well
NeedsGateway_Always(variable_name) == TRUE

\* original_name is resolved from the source's file name, every other
\* placeholder by the extraction gateway
NeedsGateway(variable_name) == variable_name # <<"original_name">>

Put(values, k, x) == (k :> x) @@ values

\* the value mapping after one placeholder has been looked at; original is
\* NoneSeq when the caller handed no source name to the function
FromGateway(values, variable_name, reply) ==
    Put(values, variable_name, extract_single_variable(variable_name, reply))

FromSource(values, variable_name, original) ==
    IF original = NoneSeq THEN values
    ELSE Put(values, variable_name, original)

Resolve(values, variable_name, original, reply) ==
    IF NeedsGateway(variable_name)
    THEN FromGateway(values, variable_name, reply)
    ELSE FromSource(values, variable_name, original)

\* the value mapping after the placeholders from position i on, when the
\* gateway gives the same reply to every request
RECURSIVE collect(_, _, _, _, _)
collect(names, i, original, reply, values) ==
    IF i > Len(names) THEN values
    ELSE collect(names, i + 1, original, reply,
                 Resolve(values, names[i], original, reply))

\* generate_ai_filename as one function of its inputs
generate_ai_filename(naming_pattern, original, reply) ==
    IF ~IsString(naming_pattern) THEN unnamed_file
    ELSE RenderWithFallback(naming_pattern,
             collect(parse_naming_pattern(naming_pattern), 1, original,
                     reply, <<>>))

\* the requests generate_ai_filename sends to the extraction gateway
GatewayNames(naming_pattern) ==
    IF IsString(naming_pattern)
    THEN SelectSeq(parse_naming_pattern(naming_pattern), NeedsGateway)
    ELSE <<>>

\* logger.warning and logger.error calls, by message
ZeroLog == [warning_retry |-> 0, warning_no_pattern |-> 0, error |-> 0]
ZeroCalls == [extract_pdf |-> 0, extract_docx |-> 0, categorize |-> 0,
              categorize_failed |-> 0, generate |-> 0, extract_value |-> 0]

Bump(r, f) == [r EXCEPT ![f] = @ + 1]

(***************************************************************************)
(* Initial state                                                           *)
(***************************************************************************)
\* no call of generate_ai_filename is being followed step by step
GeneratorIdle ==
    /\ gen_pc = "idle"
    /\ gen_pattern = NoneSeq
    /\ gen_original = NoneSeq
    /\ variable_names = <<>>
    /\ gen_i = 1
    /\ extracted = <<>>
    /\ gateway_log = <<>>
    /\ filename = NoneSeq
    /\ branch = None

\* a path of the monitor: where it lies and its suffix
NoWhere == [loc |-> None, ext |-> None]

\* no event is being handled by the dispatch thread
NoDispatch ==
    [kind |-> None, is_directory |-> FALSE, src_path |-> NoWhere,
     dest_path |-> NoWhere, id |-> 0]

\* organizer.main has not been entered
MonitorOff ==
    /\ main_pc = "off"
    /\ observer = "unbound"
    /\ observer_thread = "unstarted"
    /\ stopped_event = FALSE
    /\ event_queue = <<>>
    /\ dispatching = NoDispatch
    /\ handler_pc = "none"
    /\ tries = 0
    /\ emitted = 0
    /\ invocations = <<>>
    /\ finished = <<>>
    /\ errors = {}
    /\ watched_folder = ""
    /\ watched_dir = "absent"
    /\ external = {}

\* the configuration editor is not open
NoForm == [kind |-> None, index |-> 0]

\* the data of General and of original_name is what load_config returned
AsLoaded == [General |-> "loaded", original_name |-> "loaded"]

\* self.monitor_process is None; the subprocesses are numbered from 1
NoProcess == 0

\* ConfigGUI.__init__: self.monitor_process = None
MonitorButtonIdle ==
    /\ monitor_process = NoProcess
    /\ subprocesses = {}
    /\ started = 0

EditorOff ==
    /\ gui_categories = <<>>
    /\ gui_variables = <<>>
    /\ form = NoForm
    /\ operations = {}
    /\ stored = AsLoaded
    /\ MonitorButtonIdle
    /\ window = "unopened"

\* no call of config_manager is modelled
NoParts == [none |-> TRUE]
NotCalled ==
    [by |-> None, outcome |-> None, error |-> None, value |-> NoParts]

ConfigOff ==
    /\ config_file = [kind |-> "absent", value |-> NoParts]
    /\ writable = FALSE
    /\ returned = NotCalled
    /\ saved_parts = NoParts

Init ==
    /\ MonitorOff
    /\ EditorOff
    /\ ConfigOff
    /\ enable_organization \in BOOLEAN
    /\ gateway_categories \in CategoryRepertoires
    /\ \E old \in InitialFileSetsFor(gateway_categories) :
          /\ files = [p \in old |-> OldContent(p)]
          /\ dirs = {p.dir : p \in old} \ {Root}
    /\ dropped = {}
    /\ pending = {}
    /\ event = NoEvent
    /\ pc = "idle"
    /\ filepath = NoPath
    /\ attempt = 0
    /\ category = None
    /\ suggested_name = NoneSeq
    /\ destination_folder = None
    /\ dest_path = NoPath
    /\ counter = 0
    /\ log = ZeroLog
    /\ delays = <<>>
    /\ outcomes = <<>>
    /\ calls = ZeroCalls
    /\ moves = <<>>
    /\ files0 = files
    /\ dirs0 = dirs
    /\ GeneratorIdle

(***************************************************************************)
(* The environment: something arrives in the watched folder and the        *)
(* observer emits one event for it.  It acts only between invocations.     *)
(***************************************************************************)
Drop(item) ==
    /\ pc = "idle"
    /\ item \notin dropped
    /\ Cardinality(dropped) < MaxDrops
    /\ IF item.is_directory
       THEN /\ dirs' = dirs \cup {FolderName(item)}
            /\ UNCHANGED files
       ELSE /\ ~is_file(RootPath(item.stem, item.ext))
            /\ files' = files @@
                  (RootPath(item.stem, item.ext) :> ContentOf(item))
            /\ UNCHANGED dirs
    /\ dropped' = dropped \cup {item}
    /\ pending' = pending \cup
          {[is_directory |-> item.is_directory,
            path |-> RootPath(item.stem, item.ext)]}
    /\ UNCHANGED <<setupvars, genvars, offvars, event, pc, localvars, histvars,
                   snapvars>>

(***************************************************************************)
(* DocumentHandler.on_created / on_moved                                   *)
(***************************************************************************)
\* variant: the callbacks without the is_directory test
Skipped_NoDirectoryCheck(is_directory, path) ==
    lower(path.ext) \notin SUPPORTED_EXTENSIONS

\* the two early returns of the callbacks
Skipped(is_directory, path) ==
    \/ is_directory
    \/ lower(path.ext) \notin SUPPORTED_EXTENSIONS

\* the callback body; ev.path is src_path of a created event and dest_path
\* of a moved event
Callback(ev) ==
    /\ pc = "idle"
    /\ pending' = pending \ {ev}
    /\ event' = ev
    /\ files0' = files
    /\ dirs0' = dirs
    /\ calls' = ZeroCalls
    /\ delays' = <<>>
    /\ outcomes' = <<>>
    /\ moves' = <<>>
    /\ attempt' = 0
    /\ IF Skipped(ev.is_directory, ev.path)
       THEN /\ pc' = "ignored"
            /\ UNCHANGED filepath
       ELSE /\ pc' = "extract"
            /\ filepath' = ev.path
    /\ log' = ZeroLog
    /\ UNCHANGED <<setupvars, genvars, offvars, fsvars, dropped, category,
                   suggested_name, destination_folder, dest_path, counter>>

on_created == \E ev \in pending : Callback(ev)

on_moved == \E ev \in pending : Callback(ev)

(***************************************************************************)
(* DocumentHandler.process_file                                            *)
(***************************************************************************)
\* variant: every error is retried
Retried_AnyError(kind, att) == att < max_retries - 1

\* variant: the last attempt is retried too
Retried_OffByOne(kind, att) == kind = "PermissionError" /\ att < max_retries

\* the except clauses: a permission error before the last attempt is
\* retried after a sleep, every other error ends the invocation
Retried(kind, att) == kind = "PermissionError" /\ att < max_retries - 1

\* variant: a retry is logged as an error
Raise_ErrorOnRetry(kind) ==
    /\ outcomes' = Append(outcomes, kind)
    /\ category' = None
    /\ suggested_name' = NoneSeq
    /\ destination_folder' = None
    /\ dest_path' = NoPath
    /\ counter' = 0
    /\ log' = Bump(log, "error")
    /\ pc' = IF Retried(kind, attempt) THEN "sleep" ELSE "failed"

\* the locals of the abandoned attempt are dead: every later attempt
\* assigns them before it reads them
Raise(kind) ==
    /\ outcomes' = Append(outcomes, kind)
    /\ category' = None
    /\ suggested_name' = NoneSeq
    /\ destination_folder' = None
    /\ dest_path' = NoPath
    /\ counter' = 0
    /\ IF Retried(kind, attempt)
       THEN /\ log' = Bump(log, "warning_retry")
            /\ pc' = "sleep"
       ELSE /\ log' = Bump(log, "error")
            /\ pc' = "failed"

\* time.sleep(retry_delay); continue
process_file_sleep ==
    /\ pc = "sleep"
    /\ delays' = Append(delays, retry_delay)
    /\ attempt' = attempt + 1
    /\ pc' = "extract"
    /\ UNCHANGED <<setupvars, genvars, offvars, fsvars, envvars, event, filepath,
                   category, suggested_name, destination_folder, dest_path,
                   counter, log, outcomes, calls, moves, snapvars>>

\* which extractor the suffix selects
Extractor(path) ==
    IF lower(path.ext) = ".pdf" THEN "extract_pdf" ELSE "extract_docx"

\* how opening and reading the document can end
ExtractOutcomes(path) ==
    IF is_file(path) THEN {"ok", "PermissionError", "other"} ELSE {"other"}

process_file_extract ==
    /\ pc = "extract"
    /\ calls' = Bump(calls, Extractor(filepath))
    /\ \E r \in ExtractOutcomes(filepath) :
          IF r = "ok"
          THEN /\ pc' = "classify"
               /\ UNCHANGED <<log, outcomes, category, suggested_name,
                              destination_folder, dest_path, counter>>
          ELSE Raise(r)
    /\ UNCHANGED <<setupvars, genvars, offvars, fsvars, envvars, event, filepath,
                   attempt, delays, moves, snapvars>>

\* variant: a failed classification is logged and the attempt goes on with
\* the fallback category
process_file_categorize_GoesOn ==
    /\ pc = "classify"
    /\ \E r \in gateway_categories \cup ClassifyFailures :
          IF r \in gateway_categories
          THEN /\ category' = r
               /\ calls' = Bump(calls, "categorize")
               /\ UNCHANGED log
          ELSE /\ category' = "General"
               /\ calls' = Bump(Bump(calls, "categorize"),
                                "categorize_failed")
               /\ log' = Bump(log, "error")
    /\ pc' = "name"
    /\ UNCHANGED <<setupvars, genvars, offvars, fsvars, envvars, event,
                   filepath, attempt, delays, moves, snapvars, outcomes,
                   suggested_name, destination_folder, dest_path, counter>>

process_file_categorize ==
    /\ pc = "classify"
    /\ \E r \in gateway_categories \cup ClassifyFailures :
          IF r \in gateway_categories
          THEN /\ category' = r
               /\ calls' = Bump(calls, "categorize")
               /\ pc' = "name"
               /\ UNCHANGED <<log, outcomes, suggested_name,
                              destination_folder, dest_path, counter>>
          ELSE /\ calls' = Bump(Bump(calls, "categorize"),
                                "categorize_failed")
               /\ Raise("other")
    /\ UNCHANGED <<setupvars, genvars, offvars, fsvars, envvars, event, filepath,
                   attempt, delays, moves, snapvars>>

process_file_name ==
    /\ pc = "name"
    /\ LET naming_pattern == get_naming_pattern(category, categories) IN
       IF Falsy(naming_pattern)
       THEN /\ suggested_name' = <<"unnamed_file">>
            /\ log' = Bump(log, "warning_no_pattern")
            /\ UNCHANGED calls
       ELSE /\ \E reply \in PipelineReplies :
                  suggested_name' =
                      generate_ai_filename(naming_pattern, NoneSeq, reply)
            /\ UNCHANGED log
            /\ calls' = [calls EXCEPT
                  !.generate = @ + 1,
                  !.extract_value = @ + Len(GatewayNames(naming_pattern))]
    /\ pc' = "folder"
    /\ UNCHANGED <<setupvars, genvars, offvars, fsvars, envvars, event, filepath,
                   attempt, category, destination_folder, dest_path, counter,
                   delays, outcomes, moves, snapvars>>

\* ensure_category_folder: mkdir(parents=True, exist_ok=True) below base
ensure_category_folder(ds, category_name) == ds \cup {category_name}

MkdirOutcomes(category_name) ==
    IF category_name \in dirs THEN {"ok"}
    ELSE {"ok", "PermissionError", "other"}

\* variant: the suffix is one ahead of the counter
Candidate_SkipsOne(folder, stem, k, suffix) ==
    [dir |-> folder, stem |-> stem, n |-> IF k = 0 THEN 0 ELSE k + 1,
     ext |-> lower(suffix)]

\* variant: the suffix keeps the case it has in the source's name
Candidate_KeepsCase(folder, stem, k, suffix) ==
    [dir |-> folder, stem |-> stem, n |-> k, ext |-> suffix]

\* destination_folder / (stem [_k] suffix.lower())
Candidate(folder, stem, k, suffix) ==
    [dir |-> folder, stem |-> stem, n |-> k, ext |-> lower(suffix)]

\* variants: the organization flag is not consulted
Destination_AlwaysRoot(organize, cat) == Root

Destination_AlwaysCategory(organize, cat) == cat

\* the folder the file goes to
Destination(organize, cat) == IF organize THEN cat ELSE Root

process_file_folder ==
    /\ pc = "folder"
    /\ \E r \in (IF enable_organization THEN MkdirOutcomes(category)
                 ELSE {"ok"}) :
          IF r = "ok"
          THEN /\ dirs' = IF enable_organization
                          THEN ensure_category_folder(dirs, category)
                          ELSE dirs
               /\ destination_folder' =
                     Destination(enable_organization, category)
               /\ dest_path' = Candidate(destination_folder', suggested_name,
                                         0, filepath.ext)
               /\ counter' = 1
               /\ pc' = "check"
               /\ UNCHANGED <<log, outcomes, category, suggested_name>>
          ELSE /\ Raise(r)
               /\ UNCHANGED dirs
    /\ UNCHANGED <<setupvars, genvars, offvars, files, envvars, event, filepath,
                   attempt, delays, calls, moves, snapvars>>

\* one evaluation of the while condition and, when it holds, the loop body
process_file_conflict ==
    /\ pc = "check"
    /\ IF exists(dest_path)
       THEN /\ dest_path' = Candidate(destination_folder, suggested_name,
                                      counter, filepath.ext)
            /\ counter' = counter + 1
            /\ UNCHANGED pc
       ELSE /\ pc' = "move"
            /\ UNCHANGED <<dest_path, counter>>
    /\ UNCHANGED <<setupvars, genvars, offvars, fsvars, envvars, event, filepath,
                   attempt, category, suggested_name, destination_folder,
                   histvars, snapvars>>

\* variant: the source stays where it is (a copy)
Moved_Copies(fs, src, dst) ==
    [p \in DOMAIN fs \cup {dst} |-> IF p = dst THEN fs[src] ELSE fs[p]]

\* the files after shutil.move(src, dst)
Moved(fs, src, dst) ==
    [p \in (DOMAIN fs \ {src}) \cup {dst} |->
        IF p = dst THEN fs[src] ELSE fs[p]]

MoveOutcomes(src) ==
    IF is_file(src) THEN {"ok", "PermissionError", "other"} ELSE {"other"}

process_file_move ==
    /\ pc = "move"
    /\ \E r \in MoveOutcomes(filepath) :
          IF r = "ok"
          THEN /\ files' = Moved(files, filepath, dest_path)
               /\ moves' = Append(moves, [src |-> filepath, dst |-> dest_path])
               /\ IF relative_to_raises(dest_path)
                  THEN Raise("other")
                  ELSE /\ outcomes' = Append(outcomes, "ok")
                       /\ pc' = "done"
                       /\ UNCHANGED <<log, category, suggested_name,
                                      destination_folder, dest_path, counter>>
          ELSE /\ Raise(r)
               /\ UNCHANGED <<files, moves>>
    /\ UNCHANGED <<setupvars, genvars, offvars, dirs, envvars, event, filepath,
                   attempt, delays, calls, snapvars>>

\* the callback returns to the observer's dispatch loop
Return ==
    /\ pc \in {"done", "failed", "ignored"}
    /\ pc' = "idle"
    /\ event' = NoEvent
    /\ filepath' = NoPath
    /\ attempt' = 0
    /\ category' = None
    /\ suggested_name' = NoneSeq
    /\ destination_folder' = None
    /\ dest_path' = NoPath
    /\ counter' = 0
    /\ log' = ZeroLog
    /\ delays' = <<>>
    /\ outcomes' = <<>>
    /\ calls' = ZeroCalls
    /\ moves' = <<>>
    /\ files0' = files
    /\ dirs0' = dirs
    /\ UNCHANGED <<setupvars, genvars, offvars, fsvars, envvars>>

Next ==
    \/ \E item \in Inbox : Drop(item)
    \/ on_created
    \/ on_moved
    \/ process_file_extract
    \/ process_file_categorize
    \/ process_file_name
    \/ process_file_folder
    \/ process_file_conflict
    \/ process_file_move
    \/ process_file_sleep
    \/ Return

Spec == Init /\ [][Next]_vars

(***************************************************************************)
(* process_file called directly, as the tests do: no event, no callback,   *)
(* hence no filter on the suffix.                                          *)
(***************************************************************************)
DirectInit ==
    /\ MonitorOff
    /\ EditorOff
    /\ ConfigOff
    /\ GeneratorIdle
    /\ enable_organization \in BOOLEAN
    /\ gateway_categories \in CategoryRepertoires
    /\ \E old \in InitialFileSetsFor(gateway_categories) :
          \E item \in {i \in Inbox : ~i.is_directory} :
             /\ files = [p \in old |-> OldContent(p)] @@
                   (RootPath(item.stem, item.ext) :> ContentOf(item))
             /\ dirs = {p.dir : p \in old} \ {Root}
             /\ filepath = RootPath(item.stem, item.ext)
    /\ dropped = {}
    /\ pending = {}
    /\ event = NoEvent
    /\ pc = "extract"
    /\ attempt = 0
    /\ category = None
    /\ suggested_name = NoneSeq
    /\ destination_folder = None
    /\ dest_path = NoPath
    /\ counter = 0
    /\ log = ZeroLog
    /\ delays = <<>>
    /\ outcomes = <<>>
    /\ calls = ZeroCalls
    /\ moves = <<>>
    /\ files0 = files
    /\ dirs0 = dirs

DirectNext ==
    \/ process_file_extract
    \/ process_file_categorize
    \/ process_file_name
    \/ process_file_folder
    \/ process_file_conflict
    \/ process_file_move
    \/ process_file_sleep
    \/ Return

DirectSpec == DirectInit /\ [][DirectNext]_vars

(***************************************************************************)
(* generate_ai_filename, one call followed step by step: the pattern is    *)
(* parsed, one value is obtained for each placeholder in turn, and the     *)
(* pattern is rendered.  The watcher is not running.                       *)
(***************************************************************************)
\* the patterns a call may be given
Patterns ==
    UNION {[1..n -> PatternTokens] : n \in 0..MaxPatLen} \cup {NotAString}

\* the source's stem, when the caller hands one over
Originals == {NoneSeq, <<"scan">>}

WatcherOff ==
    /\ enable_organization = FALSE
    /\ gateway_categories = {}
    /\ files = <<>>
    /\ dirs = {}
    /\ dropped = {}
    /\ pending = {}
    /\ event = NoEvent
    /\ pc = "idle"
    /\ filepath = NoPath
    /\ attempt = 0
    /\ category = None
    /\ suggested_name = NoneSeq
    /\ destination_folder = None
    /\ dest_path = NoPath
    /\ counter = 0
    /\ log = ZeroLog
    /\ delays = <<>>
    /\ outcomes = <<>>
    /\ calls = ZeroCalls
    /\ moves = <<>>
    /\ files0 = <<>>
    /\ dirs0 = {}

pipevars == <<setupvars, fsvars, envvars, event, pc, localvars,
              histvars, snapvars>>

GenInit ==
    /\ WatcherOff
    /\ MonitorOff
    /\ EditorOff
    /\ ConfigOff
    /\ gen_pc = "parse"
    /\ gen_pattern \in Patterns
    /\ gen_original \in Originals
    /\ variable_names = <<>>
    /\ gen_i = 1
    /\ extracted = <<>>
    /\ gateway_log = <<>>
    /\ filename = NoneSeq
    /\ branch = None

\* variable_names = parse_naming_pattern(naming_pattern); an exception ends
\* the call with the fixed name
generate_parse ==
    /\ gen_pc = "parse"
    /\ IF IsString(gen_pattern)
       THEN /\ variable_names' = parse_naming_pattern(gen_pattern)
            /\ gen_pc' = "extract"
            /\ UNCHANGED <<filename, branch>>
       ELSE /\ filename' = unnamed_file
            /\ branch' = "unnamed"
            /\ gen_pc' = "done"
            /\ UNCHANGED variable_names
    /\ UNCHANGED <<pipevars, offvars, gen_pattern, gen_original, gen_i, extracted,
                   gateway_log>>

\* one placeholder of the parsed sequence: a request to the gateway through
\* extract_single_variable, or the local value of original_name
generate_extract ==
    /\ gen_pc = "extract"
    /\ gen_i <= Len(variable_names)
    /\ LET variable_name == variable_names[gen_i] IN
       IF NeedsGateway(variable_name)
       THEN \E reply \in ValueReplies :
               /\ extracted' = FromGateway(extracted, variable_name, reply)
               /\ gateway_log' = Append(gateway_log,
                     [name |-> variable_name, reply |-> reply,
                      returned |->
                          extract_single_variable(variable_name, reply)])
       ELSE /\ extracted' = FromSource(extracted, variable_name,
                                       gen_original)
            /\ UNCHANGED gateway_log
    /\ gen_i' = gen_i + 1
    /\ UNCHANGED <<pipevars, offvars, gen_pc, gen_pattern, gen_original,
                   variable_names, filename, branch>>

\* the rendering with the assembled values and, when it fails, the one
\* with the <NAME> tokens
generate_render ==
    /\ gen_pc = "extract"
    /\ gen_i > Len(variable_names)
    /\ filename' = RenderWithFallback(gen_pattern, extracted)
    /\ branch' = IF Covers(gen_pattern, extracted) THEN "values" ELSE "tokens"
    /\ gen_pc' = "done"
    /\ UNCHANGED <<pipevars, offvars, gen_pattern, gen_original, variable_names,
                   gen_i, extracted, gateway_log>>

GenNext ==
    \/ generate_parse
    \/ generate_extract
    \/ generate_render

GenSpec == GenInit /\ [][GenNext]_vars

(***************************************************************************)
(* The monitor process: organizer.main in the main thread and the          *)
(* observer's dispatch thread, which takes the events of the watch from a  *)
(* queue one at a time and runs the callback of DocumentHandler for each.  *)
(* A path is [loc, ext]: loc is "root" for an entry of the watched folder  *)
(* itself and "sub" for an entry of one of its subfolders.  The invocation *)
(* of process_file is followed attempt by attempt.                         *)
(***************************************************************************)
MaxChanges == 3

\* variant: only the empty string counts as no folder
Unconfigured_OnlyEmpty(folder) == folder = ""

\* if not watched_folder or watched_folder == "SELECT FOLDER"
Unconfigured(folder) == folder = "" \/ folder = "SELECT FOLDER"

\* the folders load_config can hand to start_observer
WatchedFolders == {"", "SELECT FOLDER", "inbox"}

\* the pipeline is not followed step by step
HandlerOff ==
    /\ gateway_categories = {}
    /\ files = <<>>
    /\ dirs = {}
    /\ dropped = {}
    /\ pending = {}
    /\ event = NoEvent
    /\ pc = "idle"
    /\ filepath = NoPath
    /\ attempt = 0
    /\ category = None
    /\ suggested_name = NoneSeq
    /\ destination_folder = None
    /\ dest_path = NoPath
    /\ counter = 0
    /\ log = ZeroLog
    /\ delays = <<>>
    /\ outcomes = <<>>
    /\ calls = ZeroCalls
    /\ moves = <<>>
    /\ files0 = <<>>
    /\ dirs0 = {}

\* python main.py monitor: organizer.main is entered
RunInit ==
    /\ HandlerOff
    /\ GeneratorIdle
    /\ EditorOff
    /\ ConfigOff
    /\ watched_folder \in WatchedFolders
    /\ watched_dir \in (IF watched_folder = "inbox"
                        THEN {"absent", "present"} ELSE {"absent"})
    /\ external = {}
    /\ enable_organization \in BOOLEAN
    /\ main_pc = "load_config"
    /\ observer = "unbound"
    /\ observer_thread = "unstarted"
    /\ stopped_event = FALSE
    /\ event_queue = <<>>
    /\ dispatching = NoDispatch
    /\ handler_pc = "none"
    /\ tries = 0
    /\ emitted = 0
    /\ invocations = <<>>
    /\ finished = <<>>
    /\ errors = {}

mainvars == <<main_pc, observer>>
threadvars == <<dispatching, handler_pc, tries, invocations, finished, errors>>
outside == <<pipevars, genvars, guivars, cfgvars>>
restvars == <<outside, watched_folder, watched_dir, external>>

\* what is done to the folder from outside
FileCreated(loc, ext) ==
    [kind |-> "created", is_directory |-> FALSE,
     src_path |-> [loc |-> loc, ext |-> ext], dest_path |-> NoWhere]

DirCreated(loc, ext) ==
    [kind |-> "created", is_directory |-> TRUE,
     src_path |-> [loc |-> loc, ext |-> ext], dest_path |-> NoWhere]

FileMoved(src, dest) ==
    [kind |-> "moved", is_directory |-> FALSE, src_path |-> src,
     dest_path |-> dest]

Changes ==
    {FileCreated("root", ".pdf"), FileCreated("sub", ".pdf"),
     DirCreated("root", ".pdf"),
     FileMoved([loc |-> "root", ext |-> ".txt"],
               [loc |-> "root", ext |-> ".PDF"]),
     FileMoved([loc |-> "root", ext |-> ".pdf"],
               [loc |-> "root", ext |-> ".txt"])}

\* variant: the watch is recursive
InScope_Recursive(path) == path.loc \in {"root", "sub"}

\* observer.schedule(event_handler, folder, recursive=False): the watch
\* covers the entries of the folder itself
InScope(path) == path.loc = "root"

\* the events the observer queues for a change: a creation in scope, a move
\* with both ends in scope; a move out of scope is seen as a deletion, for
\* which DocumentHandler has no callback
Observed(change) ==
    IF change.kind = "created"
    THEN IF InScope(change.src_path) THEN <<change>> ELSE <<>>
    ELSE IF InScope(change.src_path) /\ InScope(change.dest_path)
         THEN <<change>> ELSE <<>>

Stamp(events, id) ==
    [i \in 1..Len(events) |->
        [kind |-> events[i].kind, is_directory |-> events[i].is_directory,
         src_path |-> events[i].src_path, dest_path |-> events[i].dest_path,
         id |-> id]]

ProcessAlive == main_pc \in {"load_config", "start_observer", "assign",
                             "sleep", "except_interrupt",
                             "except_exception", "join"}

\* the observer is delivering: started, and stop() has not been called
Watching ==
    /\ ProcessAlive
    /\ observer_thread = "running"
    /\ ~stopped_event

\* something happens in or below the watched folder
filesystem_change(change) ==
    /\ Watching
    /\ emitted < MaxChanges
    /\ emitted' = emitted + 1
    /\ event_queue' = event_queue \o Stamp(Observed(change), emitted + 1)
    /\ external' = external \cup {emitted + 1}
    /\ UNCHANGED <<outside, watched_folder, watched_dir, mainvars,
                   threadvars, observer_thread, stopped_event>>

\* watched_folder, enable_organization, categories, variables = load_config()
main_load_config ==
    /\ main_pc = "load_config"
    /\ main_pc' = "start_observer"
    /\ UNCHANGED <<restvars, observer, observer_thread, stopped_event,
                   event_queue, threadvars, emitted>>

\* start_observer(...): ValueError when no folder is selected; otherwise
\* the folder is made when it is missing, and observer.start() has run when
\* the call returns. An OSError of mkdir leaves start_observer uncaught.
main_start_observer ==
    /\ main_pc = "start_observer"
    /\ IF Unconfigured(watched_folder)
       THEN /\ main_pc' = "except_exception"
            /\ UNCHANGED <<observer_thread, watched_dir>>
       ELSE \E r \in (IF watched_dir = "absent"
                      THEN {"ok", "OSError"} ELSE {"ok"}) :
               IF r = "ok"
               THEN /\ watched_dir' = (IF watched_dir = "absent"
                                       THEN "created" ELSE watched_dir)
                    /\ observer_thread' = "running"
                    /\ main_pc' = "assign"
               ELSE /\ main_pc' = "except_exception"
                    /\ UNCHANGED <<observer_thread, watched_dir>>
    /\ UNCHANGED <<outside, watched_folder, external, observer,
                   stopped_event, event_queue, threadvars, emitted>>

\* observer = <the returned Observer>; then while True: time.sleep(1)
main_assign ==
    /\ main_pc = "assign"
    /\ observer' = "bound"
    /\ main_pc' = "sleep"
    /\ UNCHANGED <<restvars, observer_thread, stopped_event, event_queue,
                   threadvars, emitted>>

\* the threads of the observer are daemon threads: they end with the
\* process
ThreadAtExit(thread) == IF thread = "running" THEN "killed" ELSE thread

\* Ctrl+C: KeyboardInterrupt is raised in the main thread, inside the try
\* statement or, during observer.join(), outside of it
KeyboardInterrupt ==
    /\ main_pc \in {"load_config", "start_observer", "assign", "sleep",
                    "join"}
    /\ IF main_pc = "join"
       THEN /\ main_pc' = "crashed"
            /\ observer_thread' = ThreadAtExit(observer_thread)
       ELSE /\ main_pc' = "except_interrupt"
            /\ UNCHANGED observer_thread
    /\ UNCHANGED <<restvars, observer, stopped_event, event_queue,
                   threadvars, emitted>>

\* except KeyboardInterrupt: logger.info(...); observer.stop()
main_except_interrupt ==
    /\ main_pc = "except_interrupt"
    /\ IF observer = "bound"
       THEN /\ stopped_event' = TRUE
            /\ main_pc' = "join"
            /\ UNCHANGED observer_thread
       ELSE /\ main_pc' = "crashed"
            /\ observer_thread' = ThreadAtExit(observer_thread)
            /\ UNCHANGED stopped_event
    /\ UNCHANGED <<restvars, observer, event_queue, threadvars, emitted>>

\* except Exception: logger.error(...); print(...); return
main_except_exception ==
    /\ main_pc = "except_exception"
    /\ main_pc' = "exit"
    /\ observer_thread' = ThreadAtExit(observer_thread)
    /\ UNCHANGED <<restvars, observer, stopped_event, event_queue,
                   threadvars, emitted>>

\* observer.join() returns when the dispatch thread has ended
main_join ==
    /\ main_pc = "join"
    /\ observer_thread = "stopped"
    /\ main_pc' = "exit"
    /\ UNCHANGED <<restvars, observer, observer_thread, stopped_event,
                   event_queue, threadvars, emitted>>

\* ConfigGUI.stop_monitoring: monitor_process.terminate()
stop_monitoring ==
    /\ ProcessAlive
    /\ main_pc' = "killed"
    /\ observer_thread' = ThreadAtExit(observer_thread)
    /\ UNCHANGED <<restvars, observer, stopped_event, event_queue,
                   threadvars, emitted>>

\* variant: every event is handed to a thread of its own
HandlerFree_Always == TRUE

\* the dispatch loop calls the handler and takes the next event when the
\* call has returned
HandlerFree == handler_pc = "none"

\* the dispatch loop takes the next event while the observer is not stopped
observer_dispatch ==
    /\ observer_thread = "running"
    /\ HandlerFree
    /\ ~stopped_event
    /\ event_queue # <<>>
    /\ dispatching' = Head(event_queue)
    /\ event_queue' = Tail(event_queue)
    /\ handler_pc' = "callback"
    /\ UNCHANGED <<restvars, mainvars, observer_thread, stopped_event, tries,
                   emitted, invocations, finished, errors>>

\* the dispatch loop ends once stop() was called and no callback is running
observer_stop ==
    /\ observer_thread = "running"
    /\ handler_pc = "none"
    /\ stopped_event
    /\ observer_thread' = "stopped"
    /\ UNCHANGED <<restvars, mainvars, stopped_event, event_queue,
                   threadvars, emitted>>

\* variant: on_moved processes the path the file was moved from
on_moved_path_Source(ev) == ev.src_path

\* filepath = Path(event.src_path) / filepath = Path(event.dest_path)
on_created_path(ev) == ev.src_path

on_moved_path(ev) == ev.dest_path

\* the callback: the two early returns, or process_file(filepath) is entered
Dispatch(kind, path) ==
    /\ observer_thread = "running"
    /\ handler_pc = "callback"
    /\ dispatching.kind = kind
    /\ IF Skipped(dispatching.is_directory, path)
       THEN /\ handler_pc' = "none"
            /\ dispatching' = NoDispatch
            /\ UNCHANGED invocations
       ELSE /\ handler_pc' = "attempt"
            /\ invocations' = Append(invocations,
                                     [id |-> dispatching.id, path |-> path])
            /\ UNCHANGED dispatching
    /\ tries' = 0
    /\ UNCHANGED <<restvars, mainvars, observer_thread, stopped_event,
                   event_queue, emitted, finished, errors>>

dispatch_on_created == Dispatch("created", on_created_path(dispatching))

dispatch_on_moved == Dispatch("moved", on_moved_path(dispatching))

\* the path process_file is working on
Processing == invocations[Len(invocations)].path

\* variant: an error that is not a permission error leaves process_file
Propagates_Other(kind) == kind = "other"

\* except PermissionError / except Exception: no exception leaves
\* process_file
Propagates(kind) == FALSE

\* an attempt raises
Fail(kind) ==
    IF Retried(kind, tries)
    THEN /\ handler_pc' = "sleep"
         /\ UNCHANGED <<dispatching, finished, errors, observer_thread>>
    ELSE IF Propagates(kind)
         THEN /\ observer_thread' = "crashed"
              /\ UNCHANGED <<dispatching, handler_pc, finished, errors>>
         ELSE /\ errors' = errors \cup {Processing}
              /\ finished' = Append(finished,
                    [id |-> dispatching.id, outcome |-> "failed",
                     dest |-> NoWhere])
              /\ handler_pc' = "none"
              /\ dispatching' = NoDispatch
              /\ UNCHANGED observer_thread

\* one attempt up to the end of the search for a free name
handler_attempt ==
    /\ observer_thread = "running"
    /\ handler_pc = "attempt"
    /\ \E r \in {"ok", "PermissionError", "other"} :
          IF r = "ok"
          THEN /\ handler_pc' = "checked"
               /\ UNCHANGED <<dispatching, finished, errors, observer_thread>>
          ELSE Fail(r)
    /\ UNCHANGED <<restvars, mainvars, stopped_event, event_queue, tries,
                   emitted, invocations>>

\* where the file goes: a category folder or the watched folder
PlacedAt(path) ==
    [loc |-> IF enable_organization THEN "sub" ELSE "root",
     ext |-> lower(path.ext)]

\* shutil.move(str(filepath), dest_path), itself a change of the folder
handler_move ==
    /\ observer_thread = "running"
    /\ handler_pc = "checked"
    /\ \E r \in {"ok", "PermissionError", "other"} :
          IF r = "ok"
          THEN LET seen == IF stopped_event THEN <<>>
                           ELSE Observed(FileMoved(Processing,
                                                   PlacedAt(Processing)))
               IN  /\ seen # <<>> => emitted < MaxChanges
                   /\ emitted' = emitted + Len(seen)
                   /\ event_queue' = event_queue \o Stamp(seen, emitted + 1)
                   /\ finished' = Append(finished,
                         [id |-> dispatching.id, outcome |-> "done",
                          dest |-> PlacedAt(Processing)])
                   /\ handler_pc' = "none"
                   /\ dispatching' = NoDispatch
                   /\ UNCHANGED <<errors, observer_thread>>
          ELSE /\ Fail(r)
               /\ UNCHANGED <<event_queue, emitted>>
    /\ UNCHANGED <<restvars, mainvars, stopped_event, tries, invocations>>

\* time.sleep(retry_delay); continue
handler_sleep ==
    /\ observer_thread = "running"
    /\ handler_pc = "sleep"
    /\ tries' = tries + 1
    /\ handler_pc' = "attempt"
    /\ UNCHANGED <<restvars, mainvars, observer_thread, stopped_event,
                   event_queue, dispatching, emitted, invocations, finished,
                   errors>>

ThreadNext ==
    \/ observer_dispatch
    \/ dispatch_on_created
    \/ dispatch_on_moved
    \/ handler_attempt
    \/ handler_move
    \/ handler_sleep
    \/ observer_stop

RunNext ==
    \/ \E change \in Changes : filesystem_change(change)
    \/ main_load_config
    \/ main_start_observer
    \/ main_assign
    \/ KeyboardInterrupt
    \/ main_except_interrupt
    \/ main_except_exception
    \/ main_join
    \/ stop_monitoring
    \/ observer_dispatch
    \/ dispatch_on_created
    \/ dispatch_on_moved
    \/ handler_attempt
    \/ handler_move
    \/ handler_sleep
    \/ observer_stop

RunSpec == RunInit /\ [][RunNext]_vars

\* the dispatch thread and the main thread are scheduled; what happens to
\* the folder and the signals are up to the environment
RunFairSpec ==
    /\ RunSpec
    /\ WF_vars(ThreadNext)
    /\ WF_vars(main_load_config \/ main_start_observer \/ main_assign
               \/ main_except_interrupt \/ main_except_exception
               \/ main_join)

(***************************************************************************)
(* The configuration editor (src/src/gui.py): the catalogues are dicts,    *)
(* here the sequences of their keys in insertion order, which is the order *)
(* of the list boxes.  A form is open for one add or one edit at a time.   *)
(***************************************************************************)
MaxListed == 2
MaxStarts == 2

CategoryNames == {"General", "Invoices", "Misc"}

VariableNames == {"original_name", "company", "date"}

Range(seq) == {seq[i] : i \in 1..Len(seq)}

\* the names listed in a configuration file: any few, in any order
Listings(names) ==
    {l \in UNION {[1..n -> names] : n \in 0..MaxListed} :
        \A i, j \in 1..Len(l) : i # j => l[i] # l[j]}

\* load_config: the required entry is appended when no entry has its name
ensure(listing, required) ==
    IF required \in Range(listing) THEN listing
    ELSE Append(listing, required)

\* del d[name]
Without(d, name) == SelectSeq(d, LAMBDA x : x # name)

\* d[name] = value
With(d, name) == IF name \in Range(d) THEN d ELSE Append(d, name)

\* ConfigGUI.__init__: the catalogues are those load_config returns
EditorInit ==
    /\ HandlerOff
    /\ enable_organization = FALSE
    /\ GeneratorIdle
    /\ MonitorOff
    /\ ConfigOff
    /\ stored = AsLoaded
    /\ MonitorButtonIdle
    /\ window = "open"
    /\ gui_categories \in
          {ensure(l, "General") : l \in Listings(CategoryNames)}
    /\ gui_variables \in
          {ensure(l, "original_name") : l \in Listings(VariableNames)}
    /\ form = NoForm
    /\ operations = {}

editorouter == <<pipevars, genvars, runvars, cfgvars>>
editorrest == <<editorouter, monitorvars, stored>>

\* variant: nothing is protected from deletion
delete_refused_Never(current_name, required) == FALSE

\* delete_category / delete_variable: the protected entry
delete_refused(current_name, required) == current_name = required

\* edit_category / edit_variable: the protected entry
edit_refused(current_name, required) == current_name = required

\* on_save of a form: index 0 is add mode
\* what a form can hold for an entry's description and naming pattern: the
\* text the entry was loaded with, or another text
Entered == {"loaded", "entered"}

\* self.categories[new_cat["name"]] = {...} and self.variables[name] = ...:
\* the assignment replaces whatever the dict held under that name
Assigned(data_of, key, name, data) ==
    IF name = key THEN [data_of EXCEPT ![key] = data] ELSE data_of

Saved(d, index, name) ==
    IF index # 0
    THEN With(IF d[index] # name THEN Without(d, d[index]) ELSE d, name)
    ELSE With(d, name)

add_category ==
    /\ window = "open"
    /\ form = NoForm
    /\ form' = [kind |-> "category", index |-> 0]
    /\ UNCHANGED <<editorrest, gui_categories, gui_variables, operations>>

edit_category ==
    /\ window = "open"
    /\ form = NoForm
    /\ \E idx \in 1..Len(gui_categories) :
          IF edit_refused(gui_categories[idx], "General")
          THEN /\ operations' = operations \cup {"refused"}
               /\ UNCHANGED form
          ELSE /\ form' = [kind |-> "category", index |-> idx]
               /\ UNCHANGED operations
    /\ UNCHANGED <<editorrest, gui_categories, gui_variables>>

delete_category ==
    /\ window = "open"
    /\ form = NoForm
    /\ \E idx \in 1..Len(gui_categories) :
          IF delete_refused(gui_categories[idx], "General")
          THEN /\ operations' = operations \cup {"refused"}
               /\ UNCHANGED gui_categories
          ELSE /\ gui_categories' =
                     Without(gui_categories, gui_categories[idx])
               /\ operations' = operations \cup {"delete"}
    /\ UNCHANGED <<editorrest, gui_variables, form>>

\* show_category_form.on_save; an empty name is refused
category_on_save ==
    /\ window = "open"
    /\ form.kind = "category"
    /\ \E name \in CategoryNames \cup {""} :
          IF name = ""
          THEN UNCHANGED <<gui_categories, form, operations, stored>>
          ELSE /\ gui_categories' = Saved(gui_categories, form.index, name)
               /\ \E data \in Entered :
                     stored' = Assigned(stored, "General", name, data)
               /\ operations' = operations \cup
                     {IF form.index = 0 THEN "add" ELSE "edit"}
               /\ form' = NoForm
    /\ UNCHANGED <<editorouter, monitorvars, gui_variables>>

add_variable ==
    /\ window = "open"
    /\ form = NoForm
    /\ form' = [kind |-> "variable", index |-> 0]
    /\ UNCHANGED <<editorrest, gui_categories, gui_variables, operations>>

edit_variable ==
    /\ window = "open"
    /\ form = NoForm
    /\ \E idx \in 1..Len(gui_variables) :
          IF edit_refused(gui_variables[idx], "original_name")
          THEN /\ operations' = operations \cup {"refused"}
               /\ UNCHANGED form
          ELSE /\ form' = [kind |-> "variable", index |-> idx]
               /\ UNCHANGED operations
    /\ UNCHANGED <<editorrest, gui_categories, gui_variables>>

delete_variable ==
    /\ window = "open"
    /\ form = NoForm
    /\ \E idx \in 1..Len(gui_variables) :
          IF delete_refused(gui_variables[idx], "original_name")
          THEN /\ operations' = operations \cup {"refused"}
               /\ UNCHANGED gui_variables
          ELSE /\ gui_variables' = Without(gui_variables, gui_variables[idx])
               /\ operations' = operations \cup {"delete"}
    /\ UNCHANGED <<editorrest, gui_categories, form>>

\* show_variable_form.on_save; an empty name is refused
variable_on_save ==
    /\ window = "open"
    /\ form.kind = "variable"
    /\ \E name \in VariableNames \cup {""} :
          IF name = ""
          THEN UNCHANGED <<gui_variables, form, operations, stored>>
          ELSE /\ gui_variables' = Saved(gui_variables, form.index, name)
               /\ \E data \in Entered :
                     stored' = Assigned(stored, "original_name", name, data)
               /\ operations' = operations \cup
                     {IF form.index = 0 THEN "add" ELSE "edit"}
               /\ form' = NoForm
    /\ UNCHANGED <<editorouter, monitorvars, gui_categories>>

\* the Cancel button of a form
show_list_view ==
    /\ window = "open"
    /\ form # NoForm
    /\ form' = NoForm
    /\ UNCHANGED <<editorrest, gui_categories, gui_variables, operations>>

\* variant: terminate() and kill() leave the subprocess running
Terminated_Not(procs, p) == procs

\* monitor_process.terminate(), wait(timeout=5), then kill() and wait()
Terminated(procs, p) == procs \ {p}

\* self.monitor_process and self.monitor_process.poll() is None
is_running == monitor_process # NoProcess /\ monitor_process \in subprocesses

\* stop_monitoring
Stopped ==
    /\ subprocesses' = (IF is_running
                        THEN Terminated(subprocesses, monitor_process)
                        ELSE subprocesses)
    /\ monitor_process' = NoProcess
    /\ UNCHANGED started

\* start_monitoring: it returns early when no folder is selected or the
\* user declines to create it; Popen either launches `main.py monitor`
\* and is assigned to self.monitor_process, or raises and is reported
start_monitoring ==
    \E r \in {"refused", "launched", "failed"} :
       IF r = "launched"
       THEN /\ started < MaxStarts
            /\ started' = started + 1
            /\ monitor_process' = started + 1
            /\ subprocesses' = subprocesses \cup {started + 1}
       ELSE UNCHANGED <<monitor_process, subprocesses, started>>

\* the Start Monitoring / Stop Monitoring button
toggle_monitoring ==
    /\ window = "open"
    /\ IF ~is_running
       THEN start_monitoring
       ELSE Stopped
    /\ UNCHANGED <<editorouter, gui_categories, gui_variables, form,
                   operations, stored, window>>

\* the monitor subprocess ends by itself: organizer.main returned or raised
monitor_exits ==
    /\ \E p \in subprocesses : subprocesses' = subprocesses \ {p}
    /\ UNCHANGED <<editorouter, gui_categories, gui_variables, form,
                   operations, stored, monitor_process, started, window>>

\* WM_DELETE_WINDOW: stop_monitoring() if a subprocess runs, then destroy()
on_closing ==
    /\ window = "open"
    /\ IF is_running
       THEN /\ Stopped
            /\ operations' = operations \cup {"closed_running"}
       ELSE UNCHANGED <<monitor_process, subprocesses, started, operations>>
    /\ window' = "closed"
    /\ UNCHANGED <<editorouter, gui_categories, gui_variables, form, stored>>

EditorNext ==
    \/ toggle_monitoring
    \/ monitor_exits
    \/ on_closing
    \/ add_category
    \/ edit_category
    \/ delete_category
    \/ category_on_save
    \/ add_variable
    \/ edit_variable
    \/ delete_variable
    \/ variable_on_save
    \/ show_list_view

EditorSpec == EditorInit /\ [][EditorNext]_vars

(***************************************************************************)
(* The configuration file (config_manager.py).  A JSON object is a record  *)
(* whose field keys is the set of the keys the object has; a field whose   *)
(* key is missing holds a filler.  A dict is the sequence of its entries   *)
(* in insertion order.  The file is one of: absent, unreadable, not JSON,  *)
(* not UTF-8, JSON that is not an object, or a JSON object.                *)
(***************************************************************************)
MaxEntries == 1

TopKeys == {"watched_folder", "enable_organization", "categories",
            "variables"}
CategoryFields == {"name", "description", "naming_pattern"}
VariableFields == {"name", "description"}
Absent == ""

\* an object of the categories or of the variables list
Object(keys, name, description, naming_pattern) ==
    [keys |-> keys,
     name |-> IF "name" \in keys THEN name ELSE Absent,
     description |-> IF "description" \in keys THEN description ELSE Absent,
     naming_pattern |-> IF "naming_pattern" \in keys
                        THEN naming_pattern ELSE Absent]

\* the top-level object
Document(keys, folder, flag, cats, vars_) ==
    [keys |-> keys,
     watched_folder |-> IF "watched_folder" \in keys THEN folder ELSE Absent,
     enable_organization |-> IF "enable_organization" \in keys
                             THEN flag ELSE FALSE,
     categories |-> IF "categories" \in keys THEN cats ELSE <<>>,
     variables |-> IF "variables" \in keys THEN vars_ ELSE <<>>]

general_category ==
    Object(CategoryFields, "General", "Default category", "{original_name}")

original_name_var ==
    Object(VariableFields, "original_name", "The original filename", Absent)

DEFAULT_CONFIG ==
    Document(TopKeys, "SELECT FOLDER", TRUE, <<general_category>>,
             <<original_name_var>>)

ListsOf(S) == UNION {[1..n -> S] : n \in 0..MaxEntries}

\* the objects a list of the file can hold: any subset of the fields
StoredCategories ==
    {Object(k, n, "about", "{date}") :
        k \in SUBSET CategoryFields, n \in {"General", "Invoices"}}

StoredVariables ==
    {Object(k, n, "about", Absent) :
        k \in SUBSET VariableFields, n \in {"original_name", "date"}}

Documents ==
    {Document(k, "inbox", FALSE, c, v) :
        k \in SUBSET TopKeys, c \in ListsOf(StoredCategories),
        v \in ListsOf(StoredVariables)}

FileStates ==
    {[kind |-> k, value |-> NoParts] :
        k \in {"absent", "unreadable", "not_json", "not_utf8",
               "json_not_object"}}
    \cup {[kind |-> "json", value |-> d] : d \in Documents}

Front(list) == SubSeq(list, 1, Len(list) - 1)
Last(list) == list[Len(list)]

\* d[entry.name] = ...: a key the dict has keeps its place
Store(d, entry) ==
    IF \E i \in DOMAIN d : d[i].name = entry.name
    THEN [i \in DOMAIN d |-> IF d[i].name = entry.name THEN entry ELSE d[i]]
    ELSE Append(d, entry)

\* categories[cat["name"]] = {"description": ..., "naming_pattern": ...}
RECURSIVE categories_of(_)
categories_of(list) ==
    IF list = <<>> THEN <<>>
    ELSE Store(categories_of(Front(list)),
             [name |-> Last(list).name,
              description |-> Last(list).description,
              naming_pattern |-> Last(list).naming_pattern])

\* variables[var["name"]] = var["description"]
RECURSIVE variables_of(_)
variables_of(list) ==
    IF list = <<>> THEN <<>>
    ELSE Store(variables_of(Front(list)),
             [name |-> Last(list).name,
              description |-> Last(list).description])

\* every subscript of _transform_config finds its key
Transformable(data) ==
    /\ \A i \in DOMAIN data.categories :
          CategoryFields \subseteq data.categories[i].keys
    /\ \A i \in DOMAIN data.variables :
          VariableFields \subseteq data.variables[i].keys

_transform_config(data) ==
    [watched_folder |-> IF "watched_folder" \in data.keys
                        THEN data.watched_folder ELSE "SELECT FOLDER",
     enable_organization |-> IF "enable_organization" \in data.keys
                             THEN data.enable_organization ELSE TRUE,
     categories |-> categories_of(data.categories),
     variables |-> variables_of(data.variables)]

\* for key, default_val in DEFAULT_CONFIG.items(): if key not in data: ...
WithTopKeys(data) ==
    Document(TopKeys,
        IF "watched_folder" \in data.keys
        THEN data.watched_folder ELSE DEFAULT_CONFIG.watched_folder,
        IF "enable_organization" \in data.keys
        THEN data.enable_organization ELSE DEFAULT_CONFIG.enable_organization,
        IF "categories" \in data.keys
        THEN data.categories ELSE DEFAULT_CONFIG.categories,
        IF "variables" \in data.keys
        THEN data.variables ELSE DEFAULT_CONFIG.variables)

\* any(entry.get("name") == required for entry in list)
Has(list, required) ==
    \E i \in DOMAIN list : "name" \in list[i].keys /\ list[i].name = required

\* the validation and repair of load_config
Repaired(data) ==
    LET d == WithTopKeys(data)
    IN  [d EXCEPT
           !.categories = IF Has(@, "General")
                          THEN @ ELSE Append(@, general_category),
           !.variables = IF Has(@, "original_name")
                         THEN @ ELSE Append(@, original_name_var)]

Written(data) == [kind |-> "json", value |-> data]

Returns(by, value, file) ==
    [by |-> by, outcome |-> "returned", error |-> None, value |-> value,
     file |-> file]

Raises(by, error, file) ==
    [by |-> by, outcome |-> "raised", error |-> error, value |-> NoParts,
     file |-> file]

\* save_config(DEFAULT_CONFIG); return _transform_config(DEFAULT_CONFIG)
Reset(file, w) ==
    IF w
    THEN Returns("load_config", _transform_config(DEFAULT_CONFIG),
                Written(DEFAULT_CONFIG))
    ELSE Raises("load_config", "RuntimeError", file)

\* load_config(): how the call ends and what it leaves in the file
load_config(file, w) ==
    CASE file.kind \in {"absent", "unreadable", "not_json"} ->
            Reset(file, w)
      [] file.kind = "not_utf8" ->
            Raises("load_config", "UnicodeDecodeError", file)
      [] file.kind = "json_not_object" ->
            Raises("load_config", "TypeError", file)
      [] file.kind = "json" ->
            LET data == Repaired(file.value)
                updated == data # file.value
                after == IF updated THEN Written(data) ELSE file
            IN  IF updated /\ ~w
                THEN Raises("load_config", "RuntimeError", file)
                ELSE IF Transformable(data)
                     THEN Returns("load_config", _transform_config(data),
                                 after)
                     ELSE Raises("load_config", "KeyError", after)

Outcome(result) ==
    [by |-> result.by, outcome |-> result.outcome, error |-> result.error,
     value |-> result.value]

cfgrest == <<pipevars, genvars, runvars, guivars>>

LoadInit ==
    /\ HandlerOff
    /\ enable_organization = FALSE
    /\ GeneratorIdle
    /\ MonitorOff
    /\ EditorOff
    /\ config_file \in FileStates
    /\ writable \in BOOLEAN
    /\ returned = NotCalled
    /\ saved_parts = NoParts

load_config_call ==
    /\ LET result == load_config(config_file, writable)
       IN  /\ returned' = Outcome(result)
           /\ config_file' = result.file
    /\ UNCHANGED <<cfgrest, writable, saved_parts>>

LoadNext == load_config_call

LoadSpec == LoadInit /\ [][LoadNext]_vars

\* the dicts the editor can hand to save_config_from_parts
RECURSIVE Dicts(_, _)
Dicts(entries, n) ==
    IF n = 0 THEN {<<>>}
    ELSE Dicts(entries, n - 1) \cup
         {Append(d, e) : d \in {x \in Dicts(entries, n - 1) : Len(x) = n - 1},
                         e \in entries}

UniqueNames(d) ==
    \A i, j \in DOMAIN d : d[i].name = d[j].name => i = j

PartsSet ==
    [watched_folder : {"inbox", "SELECT FOLDER"},
     enable_organization : BOOLEAN,
     categories : {d \in Dicts([name : CategoryNames, description : {"about"},
                                naming_pattern : {"{date}"}], MaxListed) :
                      UniqueNames(d)},
     variables : {d \in Dicts([name : VariableNames,
                               description : {"meaning"}], MaxListed) :
                     UniqueNames(d)}]

\* variant: a written variable entry also has a type key
WrittenVariable_Typed(v) ==
    Object(VariableFields \cup {"type"}, v.name, v.description, Absent)

\* var_entry = {"name": name, "description": description}
WrittenVariable(v) == Object(VariableFields, v.name, v.description, Absent)

\* {"name": name, "description": ..., "naming_pattern": ...}
WrittenCategory(c) ==
    Object(CategoryFields, c.name, c.description, c.naming_pattern)

\* the config dict save_config_from_parts builds
ConfigOf(parts) ==
    Document(TopKeys, parts.watched_folder, parts.enable_organization,
             [i \in DOMAIN parts.categories |->
                 WrittenCategory(parts.categories[i])],
             [i \in DOMAIN parts.variables |->
                 WrittenVariable(parts.variables[i])])

SaveInit ==
    /\ HandlerOff
    /\ enable_organization = FALSE
    /\ GeneratorIdle
    /\ MonitorOff
    /\ EditorOff
    /\ config_file \in {[kind |-> "absent", value |-> NoParts],
                        Written(DEFAULT_CONFIG)}
    /\ writable \in BOOLEAN
    /\ returned = NotCalled
    /\ saved_parts = NoParts

\* save_config_from_parts(...): the file is replaced as a whole, or
\* save_config raises RuntimeError and the file keeps its content
save_config_from_parts ==
    /\ \E parts \in PartsSet :
          IF writable
          THEN /\ config_file' = Written(ConfigOf(parts))
               /\ saved_parts' = parts
               /\ returned' = Outcome(Returns("save_config_from_parts",
                                             NoParts, config_file))
          ELSE /\ returned' = Outcome(Raises("save_config_from_parts",
                                            "RuntimeError", config_file))
               /\ UNCHANGED <<config_file, saved_parts>>
    /\ UNCHANGED <<cfgrest, writable>>

\* _transform_config(json.load(fp)) on the document in the file
transform_call ==
    /\ config_file.kind = "json"
    /\ returned' =
          (IF Transformable(config_file.value)
           THEN Outcome(Returns("_transform_config",
                               _transform_config(config_file.value),
                               config_file))
           ELSE Outcome(Raises("_transform_config", "KeyError", config_file)))
    /\ UNCHANGED <<cfgrest, config_file, writable, saved_parts>>

SaveNext == save_config_from_parts \/ transform_call

SaveSpec == SaveInit /\ [][SaveNext]_vars

(***************************************************************************)
(* Properties                                                              *)
(***************************************************************************)
Handling == pc # "idle"

AllPermission(seq) == \A i \in 1..Len(seq) : seq[i] = "PermissionError"

ExtractCalls == calls.extract_pdf + calls.extract_docx

FilesUnderRoot(fs) == {p \in DOMAIN fs : UnderRoot(p.dir)}

\* C1: an invocation makes at most 3 attempts; an attempt is followed by
\* another one only when it ended with a permission error, and then after a
\* delay of 2; any other error ends the invocation in its own attempt.
C1_RetryPolicy ==
    Handling =>
        /\ ExtractCalls <= 3
        /\ Len(outcomes) <= 3
        /\ \A i \in 1..Len(outcomes) :
              /\ i < Len(outcomes) => outcomes[i] = "PermissionError"
              /\ outcomes[i] = "other" => pc = "failed"
        /\ \A i \in 1..Len(delays) :
              /\ delays[i] = 2
              /\ i <= Len(outcomes)
              /\ outcomes[i] = "PermissionError"
        /\ ExtractCalls >= 2 => Len(delays) >= ExtractCalls - 1

C1_Witness ==
    /\ pc = "failed"
    /\ outcomes = <<"PermissionError", "other">>
    /\ ExtractCalls = 2

\* C2: two permission failures followed by a successful third attempt end
\* with exactly one move of the file, exactly two retry warnings and no
\* failure error.
C2_SuccessOnThirdAttempt ==
    outcomes = <<"PermissionError", "PermissionError", "ok">> =>
        /\ pc = "done"
        /\ Len(moves) = 1
        /\ moves[1].src = filepath
        /\ filepath \notin DOMAIN files
        /\ moves[1].dst \in DOMAIN files
        /\ files[moves[1].dst] = files0[filepath]
        /\ log.warning_retry = 2
        /\ log.error = 0

C2_Witness ==
    /\ pc = "done"
    /\ outcomes = <<"PermissionError", "PermissionError", "ok">>

\* C3: when the first attempt fails with an error that is not a permission
\* error, there is no further attempt, the invocation returns, and the
\* source file is still at its path with its content.
C3_FatalErrorLeavesSource ==
    (Len(outcomes) >= 1 /\ outcomes[1] = "other") =>
        /\ pc = "failed"
        /\ Len(outcomes) = 1
        /\ ExtractCalls <= 1
        /\ delays = <<>>
        /\ filepath \in DOMAIN files
        /\ files[filepath] = files0[filepath]

\* C4: three permission failures end as one logged failure after exactly
\* two delays, with the source file in place and nothing placed.
C4_RetriesExhausted ==
    (Len(outcomes) = 3 /\ AllPermission(outcomes)) =>
        /\ pc = "failed"
        /\ log.error = 1
        /\ delays = <<2, 2>>
        /\ moves = <<>>
        /\ files = files0

C4_Witness ==
    /\ pc = "failed"
    /\ Len(outcomes) = 3
    /\ AllPermission(outcomes)
    /\ filepath \in DOMAIN files

\* C5: an invocation that ends in failure leaves the files and the folders
\* under the watched root exactly as they were before it.
C5_FailureLeavesNoTrace ==
    pc = "failed" =>
        /\ FilesUnderRoot(files) = FilesUnderRoot(files0)
        /\ \A p \in FilesUnderRoot(files) : files[p] = files0[p]
        /\ {d \in dirs : UnderRoot(d)} = {d \in dirs0 : UnderRoot(d)}

\* C6: the destination chosen is the first path of stem.ext, stem_1.ext,
\* stem_2.ext, ... that does not exist: every earlier candidate exists.
C6_FirstFreeCandidate ==
    pc \in {"check", "move"} =>
        /\ dest_path.dir = destination_folder
        /\ dest_path.stem = suggested_name
        /\ \A k \in 0..(dest_path.n - 1) :
              [dest_path EXCEPT !.n = k] \in DOMAIN files
        /\ pc = "move" => dest_path \notin DOMAIN files

C6_Witness ==
    /\ pc = "move"
    /\ dest_path.n = 2

\* C7: an invocation never removes or changes a file other than the one it
\* is processing: what was in any folder before it is still there,
\* unchanged.
C7_NoClobber ==
    Handling =>
        \A p \in DOMAIN files0 :
            p # filepath => p \in DOMAIN files /\ files[p] = files0[p]

C7_Witness ==
    /\ pc = "done"
    /\ dest_path.n >= 1
    /\ [dest_path EXCEPT !.n = 0] \in DOMAIN files0
    /\ [dest_path EXCEPT !.n = 0] # filepath

\* C8: with organization enabled and a configured category C, a successful
\* invocation leaves the file at C/S.E or a conflict variant of it, with
\* the folder C existing and the source path empty.
C8_OrganizedPlacement ==
    (pc = "done" /\ enable_organization /\ category \in DOMAIN categories) =>
        /\ Len(moves) = 1
        /\ moves[1].dst.dir = category
        /\ moves[1].dst.stem = suggested_name
        /\ moves[1].dst.ext \in {".pdf", ".docx"}
        /\ category \in dirs
        /\ moves[1].dst \in DOMAIN files
        /\ files[moves[1].dst] = files0[filepath]
        /\ filepath \notin DOMAIN files

C8_Witness ==
    /\ pc = "done"
    /\ enable_organization
    /\ category = "Invoices"
    /\ "Invoices" \notin dirs0
    /\ "Invoices" \in dirs

\* C9: with organization disabled no invocation changes the set of
\* folders, and a successful one leaves the file in the watched root under
\* the generated name.
C9_RenameInPlace ==
    (~enable_organization /\ Handling) =>
        /\ dirs = dirs0
        /\ pc = "done" =>
              /\ Len(moves) = 1
              /\ moves[1].dst.dir = Root
              /\ moves[1].dst.stem = suggested_name
              /\ moves[1].dst \in DOMAIN files
              /\ files[moves[1].dst] = files0[filepath]
              /\ filepath \notin DOMAIN files

C9_Witness ==
    /\ ~enable_organization
    /\ pc = "done"
    /\ category = "Invoices"
    /\ "Invoices" \notin dirs

\* C10: an event for a folder, or for a file whose lowercased extension is
\* not .pdf or .docx, is ignored: no gateway call, no filesystem change and
\* no process_file invocation.
C10_IgnoredEvents ==
    (event # NoEvent /\
     (event.is_directory \/ lower(event.path.ext) \notin {".pdf", ".docx"})) =>
        /\ pc = "ignored"
        /\ filepath = NoPath
        /\ calls = ZeroCalls
        /\ moves = <<>>
        /\ files = files0
        /\ dirs = dirs0

C10_Witness ==
    /\ pc = "ignored"
    /\ event.is_directory
    /\ event.path.ext = ".pdf"

\* the names placed so far by the invocation
Placed == pc = "done" /\ Len(moves) = 1

\* C11: the category a document is placed with is a name of the catalogue;
\* a classification that names any other category is replaced by General
\* before the pattern and the destination folder are resolved.
C11_CategoryInCatalogue ==
    pc \in {"folder", "check", "move", "done"} =>
        /\ category \in DOMAIN categories
        /\ (Placed /\ enable_organization) =>
               moves[1].dst.dir \in DOMAIN categories

\* C12: a classification that raises or gives a malformed answer does not
\* fail the document: the invocation goes on with General and places it.
C12_ClassificationFailureGoesOn ==
    calls.categorize_failed > 0 =>
        /\ pc # "failed"
        /\ pc \in {"name", "folder", "check", "move", "done"} =>
               category = "General"

\* the category of the attempt has no naming pattern
NoPattern ==
    \/ category \notin DOMAIN categories
    \/ categories[category].naming_pattern = <<>>

C14_ExtractNeverRaises ==
    /\ \A i \in 1..Len(gateway_log) :
          LET call == gateway_log[i] IN
          /\ call.reply.kind = "value" => call.returned = call.reply.value
          /\ call.reply.kind # "value" =>
                call.returned = <<"<">> \o upper(call.name) \o <<">">>
    /\ gateway_log # <<>> =>
          /\ gen_pc \in {"extract", "done"}
          /\ gen_i > Len(gateway_log)
          /\ gen_pc = "done" => branch \in {"values", "tokens"}

C14_Witness ==
    /\ gen_pc = "done"
    /\ Len(gateway_log) = 2
    /\ gateway_log[1].name = <<"company">>
    /\ gateway_log[1].reply.kind = "not_json"
    /\ gateway_log[1].returned = <<"<", "COMPANY", ">">>
    /\ gateway_log[2].reply.kind = "value"
    /\ gateway_log[2].returned = <<"Acme">>
    /\ filename = <<"<", "COMPANY", ">", "Acme">>

NotOriginalName(n) == n # <<"original_name">>

\* the names the gateway has been asked for, in the order of the requests
Asked == [i \in 1..Len(gateway_log) |-> gateway_log[i].name]

\* C15: the extraction gateway is asked once for each placeholder of the
\* parsed sequence other than original_name, in the order of the sequence,
\* and never for original_name.
C15_OneRequestPerPlaceholder ==
    /\ gen_pc \in {"extract", "done"} /\ branch # "unnamed" =>
          /\ variable_names = parse_naming_pattern(gen_pattern)
          /\ Asked = SelectSeq(SubSeq(variable_names, 1, gen_i - 1),
                               NotOriginalName)
    /\ gen_pc = "done" /\ branch # "unnamed" =>
          Asked = SelectSeq(parse_naming_pattern(gen_pattern),
                            NotOriginalName)
    /\ \A i \in 1..Len(Asked) : Asked[i] # <<"original_name">>

C15_Witness ==
    /\ gen_pc = "done"
    /\ gen_pattern = <<"{", "company", "}", "{", "original_name", "}">>
    /\ variable_names = <<(<<"company">>), <<"original_name">> >>
    /\ Asked = << <<"company">> >>

\* C16: original_name is rendered as the stem of the file being processed:
\* with the pattern {original_name} of General a file stem.ext is placed as
\* stem.ext, the extension in lower case, or as its conflict-free variant.
C16_OriginalNameIsSourceStem ==
    (Placed /\ category = "General") =>
        /\ moves[1].dst.stem = moves[1].src.stem
        /\ moves[1].dst.ext = lower(moves[1].src.ext)

\* the placeholder occurrences of p as pairs <<opening brace, closing
\* brace>>: a closing brace, and the leftmost opening brace before it that
\* has at least one token and no closing brace in between
Occurrences(p) ==
    LET spans == {m \in (1..Len(p)) \X (1..Len(p)) :
                     /\ p[m[1]] = "{"
                     /\ p[m[2]] = "}"
                     /\ m[1] + 1 < m[2]
                     /\ \A q \in (m[1] + 1)..(m[2] - 1) : p[q] # "}"}
    IN {m \in spans : \A o \in spans : o[2] = m[2] => m[1] <= o[1]}

\* what position q of p contributes to the rendered name
Piece(p, q, values) ==
    IF \E m \in Occurrences(p) : m[1] = q
    THEN LET m == CHOOSE o \in Occurrences(p) : o[1] = q
         IN values[SubSeq(p, q + 1, m[2] - 1)]
    ELSE IF \E m \in Occurrences(p) : m[1] < q /\ q <= m[2]
         THEN <<>>
         ELSE <<p[q]>>

RECURSIVE Concat(_)
Concat(ss) == IF ss = <<>> THEN <<>> ELSE Head(ss) \o Concat(Tail(ss))

\* p with every occurrence replaced, at its position, by the value of its
\* name, and everything else copied
Replaced(p, values) == Concat([q \in 1..Len(p) |-> Piece(p, q, values)])

\* C17: when the value mapping has an entry for every parsed placeholder,
\* the rendered name is the pattern with each {name} occurrence replaced at
\* its position by the value of name and all other text unchanged, also
\* when a value is a <NAME> token.
C17_RenderReplacesInPlace ==
    (gen_pc = "done" /\ branch = "values") =>
        /\ \A k \in 1..Len(variable_names) :
               variable_names[k] \in DOMAIN extracted
        /\ filename = Replaced(gen_pattern, extracted)
        /\ variable_names = <<>> => filename = gen_pattern

C17_Witness ==
    /\ gen_pc = "done"
    /\ branch = "values"
    /\ gen_pattern = <<"company", "{", "company", "}", "}">>
    /\ extracted[<<"company">>] = <<"<", "COMPANY", ">">>
    /\ filename = <<"company", "<", "COMPANY", ">", "}">>

\* the <NAME> token of every name in names
Tokens(names) ==
    [n \in {names[k] : k \in 1..Len(names)} |-> <<"<">> \o upper(n) \o <<">">>]

\* C18: generate_ai_filename always returns a stem: when a parsed
\* placeholder has no value, so that the first rendering fails, the pattern
\* is rendered with every placeholder as its <NAME> token; when parsing
\* raises the stem is unnamed_file.
C18_GenerationFallbacks ==
    gen_pc = "done" =>
        /\ filename # NoneSeq
        /\ branch \in {"values", "tokens", "unnamed"}
        /\ branch = "unnamed" <=> gen_pattern = NotAString
        /\ branch = "unnamed" => filename = <<"unnamed_file">>
        /\ branch = "tokens" <=>
              /\ gen_pattern # NotAString
              /\ \E k \in 1..Len(variable_names) :
                     variable_names[k] \notin DOMAIN extracted
        /\ branch = "tokens" =>
              filename = Replaced(gen_pattern, Tokens(variable_names))

C18_Witness ==
    /\ gen_pc = "done"
    /\ branch = "tokens"
    /\ gen_original = NoneSeq
    /\ gen_pattern = <<"{", "company", "}", "{", "original_name", "}">>
    /\ Len(gateway_log) = 1
    /\ gateway_log[1].returned = <<"Acme">>
    /\ filename = <<"<", "COMPANY", ">", "<", "ORIGINAL_NAME", ">">>

\* the {name} placeholders of p: an opening brace, at least one token of
\* text and no brace, a closing brace
Placeholders(p) ==
    {m \in (1..Len(p)) \X (1..Len(p)) :
        /\ p[m[1]] = "{"
        /\ p[m[2]] = "}"
        /\ m[1] + 1 < m[2]
        /\ \A q \in (m[1] + 1)..(m[2] - 1) : p[q] \notin {"{", "}"}}

\* their names from left to right, one entry for each occurrence
PlaceholderNames(p) ==
    LET n == Cardinality(Placeholders(p))
        at == CHOOSE f \in [1..n -> Placeholders(p)] :
                  \A a, b \in 1..n : a < b => f[a][1] < f[b][1]
    IN [k \in 1..n |-> SubSeq(p, at[k][1] + 1, at[k][2] - 1)]

\* C19: for every string parse_naming_pattern returns, without failing,
\* the names of all {name} placeholders from left to right, one entry for
\* each occurrence, and the empty sequence when there is none.
C19_AllPlaceholdersInOrder ==
    (gen_pc \in {"extract", "done"} /\ gen_pattern # NotAString) =>
        variable_names = PlaceholderNames(gen_pattern)

\* C20: no name that parse_naming_pattern returns contains an opening
\* brace, and a pattern whose only braces are nested ones, such as
\* {meta{data}}, gives the empty sequence.
C20_NoBraceInName ==
    (gen_pc \in {"extract", "done"} /\ gen_pattern # NotAString) =>
        /\ \A k \in 1..Len(variable_names) :
               \A q \in 1..Len(variable_names[k]) :
                   variable_names[k][q] # "{"
        /\ gen_pattern = <<"{", "company", "{", "company", "}", "}">> =>
               variable_names = <<>>

\* C29: the destination's file name is the generated stem followed by the
\* source's extension in lower case, in the first candidate and in every
\* numbered candidate tried after a conflict, and in the move itself.
C29_LowercasedSourceExtension ==
    /\ pc \in {"check", "move", "done"} =>
          /\ dest_path.stem = suggested_name
          /\ dest_path.ext = lower(filepath.ext)
          /\ dest_path.ext \in {".pdf", ".docx"}
    /\ \A i \in 1..Len(moves) :
          /\ moves[i].dst.ext = lower(moves[i].src.ext)
          /\ moves[i].dst.ext \in {".pdf", ".docx"}

C29_Witness ==
    /\ pc = "done"
    /\ filepath.ext = ".PDF"
    /\ Len(moves) = 1
    /\ moves[1].dst.n >= 1
    /\ moves[1].dst.ext = ".pdf"

EventPath(ev) == IF ev.kind = "moved" THEN ev.dest_path ELSE ev.src_path

\* a file with a supported extension, created in or moved within the
\* watched folder itself
Qualifies(ev) ==
    /\ ev.kind \in {"created", "moved"}
    /\ ~ev.is_directory
    /\ EventPath(ev).loc = "root"
    /\ EventPath(ev).ext \in {".pdf", ".PDF", ".docx"}

Invoked(id) == \E i \in 1..Len(invocations) : invocations[i].id = id

\* a qualifying event is waiting in the queue
Waiting ==
    \E i \in 1..Len(event_queue) : Qualifies(event_queue[i])

\* C21: process_file is entered only for the qualifying event that was
\* dispatched, with that event's path (the destination of a move) and at
\* most once for an event; an event leaves the queue only by being
\* dispatched, and a dispatched qualifying event is never skipped; as long
\* as the watcher is delivering it catches up again and again: every
\* qualifying event that waited in the queue has been taken and invoked.
C21_OneInvocationPerEvent ==
    /\ [][invocations' # invocations =>
            /\ Qualifies(dispatching)
            /\ ~Invoked(dispatching.id)
            /\ invocations' = Append(invocations,
                  [id |-> dispatching.id, path |-> EventPath(dispatching)])
         ]_vars
    /\ [][(event_queue # <<>> /\ Len(event_queue') < Len(event_queue)) =>
            /\ event_queue' = Tail(event_queue)
            /\ dispatching' = Head(event_queue)
         ]_vars
    /\ [][(handler_pc = "callback" /\ handler_pc' # "callback") =>
            IF Qualifies(dispatching)
            THEN invocations' = Append(invocations,
                    [id |-> dispatching.id, path |-> EventPath(dispatching)])
            ELSE /\ invocations' = invocations
                 /\ handler_pc' = "none"
         ]_vars
    /\ []<>(~Watching \/ (~Waiting /\ handler_pc # "callback"))

C21_Witness ==
    /\ Len(invocations) = 2
    /\ invocations[1].path = [loc |-> "root", ext |-> ".PDF"]
    /\ invocations[2].path = [loc |-> "root", ext |-> ".pdf"]
    /\ Watching

\* an event about an entry of the watched folder itself
AtTopLevel(ev) ==
    /\ ev.src_path.loc = "root"
    /\ ev.kind = "moved" => ev.dest_path.loc = "root"

\* C22: only the watched folder itself is observed: every event queued or
\* dispatched is about an entry of the folder itself, process_file is never
\* entered for a path inside a subfolder, and a file placed into a category
\* subfolder adds no event.
C22_TopLevelOnly ==
    /\ \A i \in 1..Len(event_queue) : AtTopLevel(event_queue[i])
    /\ dispatching # NoDispatch => AtTopLevel(dispatching)
    /\ \A i \in 1..Len(invocations) : invocations[i].path.loc = "root"
    /\ enable_organization =>
          /\ \A i \in 1..Len(finished) :
                finished[i].outcome = "done" => finished[i].dest.loc = "sub"
          /\ Len(invocations) <= emitted
          /\ Len(invocations) + Len(event_queue) <= emitted

C22_Witness ==
    /\ Watching
    /\ enable_organization
    /\ emitted = 1
    /\ Len(finished) = 1
    /\ finished[1].outcome = "done"
    /\ finished[1].dest.loc = "sub"
    /\ event_queue = <<>>
    /\ handler_pc = "none"

\* the path of the invocation begun for event id
PathOf(id) ==
    invocations[CHOOSE i \in 1..Len(invocations) :
                    invocations[i].id = id].path

\* C23: a failure does not stop the watcher: no exception leaves
\* process_file or a callback into the dispatch thread, every failed
\* invocation has an error record naming its file, and after it the
\* dispatch loop takes the next queued event as long as the watcher is
\* delivering.
C23_FailureDoesNotStopWatcher ==
    /\ observer_thread # "crashed"
    /\ \A i \in 1..Len(finished) :
          finished[i].outcome = "failed" =>
              /\ Invoked(finished[i].id)
              /\ PathOf(finished[i].id) \in errors
    /\ (Watching /\ handler_pc = "none" /\ event_queue # <<>>) =>
          ENABLED observer_dispatch

C23_Witness ==
    /\ Len(finished) = 2
    /\ finished[1].outcome = "failed"
    /\ finished[2].outcome = "done"
    /\ finished[2].id > finished[1].id
    /\ observer_thread = "running"

\* C24: while an invocation waits between two attempts, the delivery of
\* another queued event is possible.
C24_RetryDelayIsLocal ==
    (Watching /\ handler_pc = "sleep" /\ event_queue # <<>>) =>
        ENABLED observer_dispatch

\* the invocations begun and not yet returned
InFlight == Len(invocations) - Len(finished)

ProcessGone == main_pc \in {"exit", "crashed", "killed"}

\* C26: once the monitor has been stopped, every invocation that was begun
\* has run to its end (done or failed): none is cut off mid-way.
C26_InFlightRunsToCompletion ==
    ProcessGone => InFlight = 0

\* C27: an interruption of monitor mode at any point ends in an orderly
\* stop: no unhandled error, and the observer, if it was started, has been
\* stopped and joined when the program ends.
C27_OrderlyStopOnInterrupt ==
    /\ main_pc # "crashed"
    /\ main_pc = "exit" => observer_thread \in {"unstarted", "stopped"}

\* C28: after load_config and any sequence of add, edit and delete in the
\* editor the category catalogue contains General and the variable
\* catalogue contains original_name, and no step removes either.
C28_RequiredEntriesStay ==
    /\ "General" \in Range(gui_categories)
    /\ "original_name" \in Range(gui_variables)
    /\ \A i, j \in 1..Len(gui_categories) :
          i # j => gui_categories[i] # gui_categories[j]
    /\ \A i, j \in 1..Len(gui_variables) :
          i # j => gui_variables[i] # gui_variables[j]

C28_Witness ==
    /\ operations = {"add", "edit", "delete", "refused"}
    /\ gui_categories = <<"General">>
    /\ gui_variables = <<"company", "original_name">>
    /\ form = NoForm

\* the order of the steps of process_file: the successor positions
StepOrder ==
    {<<"idle", "extract">>, <<"idle", "ignored">>,
     <<"extract", "classify">>, <<"classify", "name">>,
     <<"name", "folder">>, <<"folder", "check">>, <<"check", "move">>,
     <<"move", "done">>, <<"sleep", "extract">>,
     <<"done", "idle">>, <<"failed", "idle">>, <<"ignored", "idle">>}
    \cup ({"extract", "classify", "folder", "move"} \X {"sleep", "failed"})

\* C34: the steps of an attempt run in the order extract, classify, name,
\* destination, move; each gateway call and each change of the folder is
\* made at its own step; the move is made only when the extraction and the
\* classification of the same attempt have returned without error, and an
\* error ends the attempt at once.
C34_StepsInOrder ==
    [][/\ pc' # pc => <<pc, pc'>> \in StepOrder
       /\ (Handling /\ pc' # "idle") =>
             /\ ExtractCalls' # ExtractCalls => pc = "extract"
             /\ calls'.categorize # calls.categorize => pc = "classify"
             /\ calls'.generate # calls.generate => pc = "name"
             /\ dirs' # dirs => pc = "folder"
             /\ files' # files => pc = "move"
             /\ moves' # moves =>
                   /\ pc = "move"
                   /\ ExtractCalls = attempt + 1
                   /\ calls.categorize >= 1
                   /\ calls.categorize_failed = 0
                   /\ Len(outcomes) = attempt
             /\ (Len(outcomes') > Len(outcomes)
                   /\ outcomes'[Len(outcomes')] # "ok") =>
                   pc' \in {"sleep", "failed"}
      ]_vars

C34_Witness ==
    /\ pc = "done"
    /\ outcomes = <<"PermissionError", "ok">>
    /\ ExtractCalls = 2
    /\ calls.categorize = 1
    /\ Len(moves) = 1

\* C35: an invocation makes at most one move, and once it has moved the
\* file it only returns: no further attempt, gateway call, delay or change
\* of the folder is made by it.
C35_MoveEndsInvocation ==
    /\ [](Len(moves) <= 1)
    /\ [](Len(moves) = 1 => pc \in {"done", "failed"})
    /\ [][Len(moves) = 1 =>
            /\ pc' = "idle"
            /\ files' = files
            /\ dirs' = dirs
            /\ attempt' = 0
            /\ calls' = ZeroCalls
            /\ delays' = <<>>
         ]_vars

C35_Witness ==
    /\ pc = "done"
    /\ Len(moves) = 1
    /\ outcomes = <<"ok">>
    /\ delays = <<>>
    /\ ExtractCalls = 1

\* C36: process_file called on a file whose suffix is neither .pdf nor
\* .docx leaves the file at its path with its content, whatever the
\* extraction and the classification return.
C36_UnsupportedLeftInPlace ==
    (filepath # NoPath /\ lower(filepath.ext) \notin {".pdf", ".docx"}) =>
        /\ filepath \in DOMAIN files
        /\ files[filepath] = files0[filepath]

\* C38: every folder created and every file written by the pipeline lies
\* in the watched root: a placed file is in the root itself or in a direct
\* child folder of it.
C38_NothingOutsideRoot ==
    /\ \A d \in dirs : UnderRoot(d)
    /\ \A p \in DOMAIN files : UnderRoot(p.dir)
    /\ \A i \in 1..Len(moves) :
          /\ UnderRoot(moves[i].dst.dir)
          /\ ~enable_organization => moves[i].dst.dir = Root

\* C37: once files have been dropped and nothing more is changed from
\* outside, the system comes to rest and every file is processed a bounded
\* number of times, with organization enabled and disabled.  Stated on the
\* finite runs of the model: every process_file invocation answers a change
\* made from outside, so that the number of invocations is bounded by the
\* number of drops and the pipeline's own rename starts no further one.
C37_ProcessedOncePerDrop ==
    \A i \in 1..Len(invocations) : invocations[i].id \in external

C40_AtMostOneMonitor ==
    /\ Cardinality(subprocesses) <= 1
    /\ subprocesses \subseteq {monitor_process}
    /\ window = "closed" => subprocesses = {}

C40_Witness ==
    /\ window = "closed"
    /\ "closed_running" \in operations
    /\ started >= 2
    /\ subprocesses = {}

\* C31: General and original_name cannot be edited: after any sequence of
\* editor operations the description and naming pattern stored for General
\* and the description stored for original_name are the ones loaded.
C31_ProtectedDataAsLoaded ==
    /\ stored.General = "loaded"
    /\ stored.original_name = "loaded"

\* C32: load_config never raises and always returns valid configuration
\* data, whatever the state of the configuration file: absent, unreadable,
\* not valid JSON, JSON missing top-level keys, JSON whose entries lack the
\* name, description or naming_pattern field.
C32_LoadNeverRaises ==
    returned.by = "load_config" =>
        /\ returned.outcome = "returned"
        /\ \E i \in DOMAIN returned.value.categories :
              returned.value.categories[i].name = "General"
        /\ \E i \in DOMAIN returned.value.variables :
              returned.value.variables[i].name = "original_name"

====
